---- MODULE Spec2Model ----
(***************************************************************************)
(* A model of AutoTransform: the Condition components and the Step list    *)
(* of the change-management engine, the component factories and bundles,   *)
(* the script-backed Input, the GithubUtils client cache and the codemod   *)
(* command line driver.                                                    *)
(***************************************************************************)
EXTENDS Naturals, Integers, Sequences, FiniteSets, TLC

VARIABLES
    \* ---- Condition components (step/condition/base.py)
    lastConstruct,   \* outcome of the latest Condition construction
    lastCheck,       \* outcome of the latest check() of a constructed Condition
    \* ---- the Step list of the change-management engine
    steps,           \* the ordered Step list
    lastEval,        \* outcome of the latest evaluation of the Step list
    \* ---- GithubUtils (util/github.py)
    instances,       \* GithubUtils.__instances: repo name -> object id, 0 absent
    constructed,     \* per repo name, the GithubUtils objects __init__ completed
    nextId,          \* the id of the next object allocated
    firstGet,        \* per repo name, what the first get() returned, 0 none yet
    ghLast,          \* outcome of the latest GithubUtils call
    pulls,           \* per GithubUtils object, _pulls: number -> wrapper
    gists,           \* per GithubUtils object, _gists: gist id -> wrapper
    waiting,         \* per repo name, the create_workflow_dispatch calls of
                     \* its client that are in their time.sleep
    \* ---- the codemod command (autotransform/codemod.py)
    pc,              \* where main() is
    now,             \* time.time(), in seconds
    start_time,      \* main's start_time
    finished,        \* whether the Runner's worker has completed
    kills,           \* the calls of runner.kill() so far
    killedAt,        \* the clock and the Runner's state at the latest kill()
    mainRaised,      \* the exception main() ended with, "None" when none
    \* ---- component factories, bundles and the script-backed Input
    customFile,      \* the custom component file of the Item factory:
                     \* component name -> class name, "absent" when not listed
    facLast          \* outcome of the latest factory or Input operation

condVars == <<lastConstruct, lastCheck>>
facVars == <<customFile, facLast>>
cliVars == <<pc, now, start_time, finished, kills, killedAt, mainRaised>>
ghVars == <<instances, constructed, nextId, firstGet, ghLast, pulls, gists,
                 waiting>>
cacheVars == <<pulls, gists>>
dispatchVars == <<waiting>>
stepVars == <<steps, lastEval>>

\* What the operations of one component leave alone.
notCondVars == <<steps, lastEval, instances, constructed, nextId, firstGet,
                 ghLast, pulls, gists,
                 waiting, pc, now, start_time, finished, kills, killedAt, mainRaised,
     customFile, facLast>>
notStepVars == <<lastConstruct, lastCheck, instances, constructed, nextId,
                 firstGet, ghLast, pulls, gists,
                 waiting, pc, now, start_time,
                 finished, kills, killedAt, mainRaised,
     customFile, facLast>>
notGhVars == <<lastConstruct, lastCheck, steps, lastEval, pc, now, start_time,
               finished, kills, killedAt, mainRaised,
     customFile, facLast>>
notFacVars == <<lastConstruct, lastCheck, steps, lastEval, instances,
                constructed, nextId, firstGet, ghLast, pulls, gists,
                 waiting, pc, now,
                start_time, finished, kills, killedAt, mainRaised>>
notCliVars == <<lastConstruct, lastCheck, steps, lastEval, instances,
                constructed, nextId, firstGet, ghLast, pulls, gists,
                 waiting,
     customFile, facLast>>

(***************************************************************************)
(* Bounds of the model.                                                    *)
(***************************************************************************)
MaxSteps == 3
MaxAge == 2
MaxRuns == 2
MaxSleep == 2
MaxClock == 40
MaxItems == 2
MaxKey == 2
MaxWaiting == 2
MaxExtensions == 2
MaxFullPages == 2

(***************************************************************************)
(* step/condition/base.py: comparisons and the Condition classes.          *)
(***************************************************************************)
ComparisonType ==
    {"EQUAL", "NOT_EQUAL", "GREATER_THAN", "GREATER_THAN_OR_EQUAL",
     "LESS_THAN", "LESS_THAN_OR_EQUAL"}

\* class ConditionName(str, Enum)
ConditionName ==
    {"AGGREGATE", "CHANGE_STATE", "CREATED_AGO", "SCHEMA_NAME", "UPDATED_AGO"}

\* ComparisonCondition.valid_comparisons()
ComparisonCondition_valid_comparisons == {"EQUAL", "NOT_EQUAL"}

\* SortableComparisonCondition.valid_comparisons()
SortableComparisonCondition_valid_comparisons ==
    {"EQUAL", "NOT_EQUAL", "GREATER_THAN", "GREATER_THAN_OR_EQUAL",
     "LESS_THAN", "LESS_THAN_OR_EQUAL"}

\* The concrete comparison Conditions the FACTORY imports, and the class of
\* base.py each one extends.
ComparisonClasses ==
    {"ChangeStateCondition", "SchemaNameCondition",
     "CreatedAgoCondition", "UpdatedAgoCondition"}

BaseOf(cls) ==
    IF cls \in {"CreatedAgoCondition", "UpdatedAgoCondition"}
    THEN "SortableComparisonCondition"
    ELSE "ComparisonCondition"

\* A lookup that ignores the override of the sortable base.
valid_comparisons_no_override(cls) == ComparisonCondition_valid_comparisons

\* cls.valid_comparisons(): the staticmethod found on the class's MRO. The
\* sortable base overrides the one of ComparisonCondition.
valid_comparisons(cls) ==
    IF BaseOf(cls) = "SortableComparisonCondition"
    THEN SortableComparisonCondition_valid_comparisons
    ELSE ComparisonCondition_valid_comparisons

\* A validator that looks the set up on ComparisonCondition itself rather
\* than on cls.
comparison_type_is_valid_base(cls, v) ==
    IF v \notin ComparisonCondition_valid_comparisons
    THEN [raised |-> "ValueError", value |-> "EQUAL"]
    ELSE [raised |-> "None", value |-> v]

\* ComparisonCondition.comparison_type_is_valid(cls, v): raises ValueError
\* when v is not in cls.valid_comparisons(), and returns v otherwise.
comparison_type_is_valid(cls, v) ==
    IF v \notin valid_comparisons(cls)
    THEN [raised |-> "ValueError", value |-> "EQUAL"]
    ELSE [raised |-> "None", value |-> v]

\* The values a Condition of each class is configured with.
ChangeStates == {"OPEN", "MERGED"}
SchemaNames == {"a", "b"}
Ages == 0 .. MaxAge

ValuesOf(cls) ==
    CASE cls = "ChangeStateCondition" -> ChangeStates
      [] cls = "SchemaNameCondition" -> SchemaNames
      [] OTHER -> Ages

\* The Changes a Condition is checked against: open Changes of schema "a",
\* updated no earlier than created.
Changes ==
    {ch \in [state : {"OPEN"}, schema_name : {"a"},
             created_ago : Ages, updated_ago : Ages] :
        ch.updated_ago <= ch.created_ago}

\* get_val_from_change of each concrete class.
get_val_from_change(cls, change) ==
    CASE cls = "ChangeStateCondition" -> change.state
      [] cls = "SchemaNameCondition" -> change.schema_name
      [] cls = "CreatedAgoCondition" -> change.created_ago
      [] OTHER -> change.updated_ago

\* autotransform.step.condition.comparison.compare
compare(first, second, comparison) ==
    CASE comparison = "EQUAL" -> first = second
      [] comparison = "NOT_EQUAL" -> first # second
      [] comparison = "GREATER_THAN" -> first > second
      [] comparison = "GREATER_THAN_OR_EQUAL" -> first >= second
      [] comparison = "LESS_THAN" -> first < second
      [] OTHER -> first <= second

\* ComparisonCondition.check
check(cond, change) ==
    compare(get_val_from_change(cond.cls, change), cond.value, cond.comparison)

\* Constructing cls(comparison=c, value=v): pydantic runs the validator of the
\* comparison field; a ValueError leaves no object.
Construct(cls, c, v) ==
    LET r == comparison_type_is_valid(cls, c) IN
    /\ lastConstruct' =
          [cls |-> cls, requested |-> c, raised |-> r.raised,
           comparison |-> r.value, value |-> v]
    /\ UNCHANGED lastCheck
    /\ UNCHANGED notCondVars

\* check() is a method of a constructed Condition: it runs on the object the
\* latest successful construction returned.
Check(change) ==
    /\ lastConstruct.cls # "None"
    /\ lastConstruct.raised = "None"
    /\ LET cond == [cls |-> lastConstruct.cls,
                    comparison |-> lastConstruct.comparison,
                    value |-> lastConstruct.value] IN
       lastCheck' = [done |-> TRUE, condition |-> cond, change |-> change,
                     result |-> check(cond, change)]
    /\ UNCHANGED lastConstruct
    /\ UNCHANGED notCondVars

InitCondition ==
    /\ lastConstruct = [cls |-> "None", requested |-> "EQUAL", raised |-> "None",
                        comparison |-> "EQUAL", value |-> 0]
    /\ lastCheck = [done |-> FALSE, condition |-> 0, change |-> 0, result |-> FALSE]

NextCondition ==
    \/ \E cls \in ComparisonClasses : \E c \in ComparisonType :
          \E v \in ValuesOf(cls) : Construct(cls, c, v)
    \/ \E ch \in Changes : Check(ch)

(***************************************************************************)
(* The Step list: each Step pairs a Condition with an Action, and the      *)
(* engine fires the Action of the first Step whose Condition passes.       *)
(***************************************************************************)
Actions == {"merge", "comment"}

\* The Conditions the Step lists of the model are built from: one plain and
\* one sortable class, one configured value each.
StepClasses == {"ChangeStateCondition", "CreatedAgoCondition"}
StepValueOf(cls) == IF cls = "ChangeStateCondition" THEN "OPEN" ELSE 1

\* The Changes the engine evaluates.
StepChanges ==
    [state : ChangeStates, schema_name : {"a"}, created_ago : Ages,
     updated_ago : {0}]

\* Loading a Step constructs its Condition (the validator runs) and appends
\* the Step; a ValueError appends nothing. The outcome of an evaluation of
\* the shorter list is dropped.
AddStep(cls, c, action) ==
    /\ Len(steps) < MaxSteps
    /\ comparison_type_is_valid(cls, c).raised = "None"
    /\ steps' = Append(steps,
          [condition |-> [cls |-> cls, comparison |-> c,
                          value |-> StepValueOf(cls)],
           action |-> action])
    /\ lastEval' = [done |-> FALSE, nsteps |-> 0, change |-> 0, fired |-> <<>>,
                    result |-> 0]
    /\ UNCHANGED notStepVars

\* What an Action does to a Change.
RunAction(action, change) ==
    IF action = "merge" THEN [change EXCEPT !.state = "MERGED"] ELSE change

\* Every Step from position i on whose Condition passes.
RECURSIVE FiredFromAll(_, _, _)
FiredFromAll(ss, change, i) ==
    IF i > Len(ss) THEN <<>>
    ELSE IF check(ss[i].condition, change)
         THEN <<[index |-> i, action |-> ss[i].action]>>
              \o FiredFromAll(ss, change, i + 1)
         ELSE FiredFromAll(ss, change, i + 1)

\* Evaluation of the Step list from position i on: the (index, action) pairs
\* fired, in order. The first Step whose Condition passes fires and the
\* evaluation stops.
RECURSIVE FiredFrom(_, _, _)
FiredFrom(ss, change, i) ==
    IF i > Len(ss) THEN <<>>
    ELSE IF check(ss[i].condition, change)
         THEN <<[index |-> i, action |-> ss[i].action]>>
         ELSE FiredFrom(ss, change, i + 1)

\* An engine that fires the Action of every Step whose Condition passes.
run_steps_all(ss, change) == FiredFromAll(ss, change, 1)

\* One cycle of the engine over a Change: the Steps fired.
run_steps(ss, change) == FiredFrom(ss, change, 1)

RECURSIVE ApplyAll(_, _)
ApplyAll(fired, change) ==
    IF fired = <<>> THEN change
    ELSE ApplyAll(Tail(fired), RunAction(Head(fired).action, change))

Evaluate(change) ==
    LET fired == run_steps(steps, change) IN
    /\ lastEval' = [done |-> TRUE, nsteps |-> Len(steps), change |-> change,
                    fired |-> fired, result |-> ApplyAll(fired, change)]
    /\ UNCHANGED steps
    /\ UNCHANGED notStepVars

InitSteps ==
    /\ steps = <<>>
    /\ lastEval = [done |-> FALSE, nsteps |-> 0, change |-> 0, fired |-> <<>>,
                   result |-> 0]

NextSteps ==
    \/ \E cls \in StepClasses : \E c \in ComparisonType :
          \E a \in Actions : AddStep(cls, c, a)
    \/ \E ch \in StepChanges : Evaluate(ch)

(***************************************************************************)
(* util/github.py: the GithubUtils client cache and the workflow dispatch. *)
(***************************************************************************)
Repos == {"o/r1", "o/r2"}

\* GithubUtils.__init__(fully_qualified_repo): the assert, then the fields.
\* The result names the exception raised, or the id of the object built.
GithubUtils_init(repo) ==
    IF instances[repo] # 0
    THEN [raised |-> "AssertionError", id |-> 0]
    ELSE [raised |-> "None", id |-> nextId]

\* GithubUtils.get(fully_qualified_repo):
\*   return __instances.setdefault(repo, GithubUtils(repo))
\* The argument GithubUtils(repo) is evaluated before setdefault is called.
get(repo) ==
    /\ UNCHANGED notGhVars
    /\ UNCHANGED cacheVars
    /\ UNCHANGED dispatchVars
    /\ LET made == GithubUtils_init(repo) IN
       IF made.raised # "None"
       THEN /\ ghLast' = [op |-> "get", repo |-> repo, raised |-> made.raised,
                          result |-> 0]
            /\ UNCHANGED <<instances, constructed, nextId, firstGet>>
       ELSE LET kept == IF instances[repo] # 0 THEN instances[repo] ELSE made.id IN
            /\ nextId' = nextId + 1
            /\ constructed' = [constructed EXCEPT ![repo] = @ + 1]
            /\ instances' = [instances EXCEPT ![repo] = kept]
            /\ firstGet' = [firstGet EXCEPT ![repo] = IF @ = 0 THEN kept ELSE @]
            /\ ghLast' = [op |-> "get", repo |-> repo, raised |-> "None",
                          result |-> kept]

\* What a call of the host API can do: return, or raise.
ApiOutcomes == {"ok", "HTTPError", "URLError"}
Urls == {"u1", "u2"}
RunLists == UNION {[1 .. n -> Urls] : n \in 0 .. MaxRuns}

NoneValue == [none |-> TRUE, value |-> ""]
Str(v) == [none |-> FALSE, value |-> v]

\* The handler of "except HTTPError as err": a warning event, and None.
dispatch_except(err) ==
    IF err = "HTTPError"
    THEN [raised |-> "None", result |-> NoneValue, events |-> <<"warning">>]
    ELSE [raised |-> err, result |-> NoneValue, events |-> <<>>]

\* The try body up to the sleep: the dispatch call. It raises what the call
\* raises, and else goes on to time.sleep(2).
dispatch_request(dispatch) ==
    IF dispatch # "ok"
    THEN [raised |-> dispatch, result |-> NoneValue, events |-> <<>>]
    ELSE [raised |-> "None", result |-> NoneValue, events |-> <<>>]

\* A run lookup that returns the html_url of the last listed run.
dispatch_lookup_last(auth, list, runs) ==
    IF auth # "ok" THEN [raised |-> auth, result |-> NoneValue, events |-> <<"debug">>]
    ELSE IF list # "ok" THEN [raised |-> list, result |-> NoneValue, events |-> <<"debug">>]
    ELSE IF runs = <<>> THEN [raised |-> "None", result |-> Str(""), events |-> <<"debug">>]
    ELSE [raised |-> "None", result |-> Str(runs[Len(runs)]), events |-> <<"debug">>]

\* The try body after the sleep: the debug event, get_authenticated() for the
\* actor argument, the run listing, and the choice of the URL.
dispatch_lookup(auth, list, runs) ==
    IF auth # "ok" THEN [raised |-> auth, result |-> NoneValue, events |-> <<"debug">>]
    ELSE IF list # "ok" THEN [raised |-> list, result |-> NoneValue, events |-> <<"debug">>]
    ELSE IF runs = <<>> THEN [raised |-> "None", result |-> Str(""), events |-> <<"debug">>]
    ELSE [raised |-> "None", result |-> Str(runs[1]), events |-> <<"debug">>]

\* What the call yields when its try body ended as t: t, or what the handler
\* makes of the exception.
dispatch_outcome(t) ==
    IF t.raised = "None" THEN t
    ELSE LET h == dispatch_except(t.raised) IN
         [h EXCEPT !.events = t.events \o h.events]

\* The seconds create_workflow_dispatch sleeps after the dispatch call.
dispatch_sleep == 2

\* GithubUtils.create_workflow_dispatch on the client of repo, up to
\* time.sleep(2): the host answers the dispatch call with the given outcome.
\* When the call raises the method ends here, through the handler; else it
\* is in its sleep, and other calls can run before it goes on.
create_workflow_dispatch(repo, dispatch) ==
    /\ instances[repo] # 0
    /\ LET t == dispatch_request(dispatch) IN
       IF t.raised # "None"
       THEN LET r == dispatch_outcome(t) IN
            /\ ghLast' = [op |-> "create_workflow_dispatch", repo |-> repo,
                          dispatch |-> dispatch, auth |-> "not called",
                          list |-> "not called", runs |-> <<>>,
                          sleeps |-> <<>>, raised |-> r.raised,
                          result |-> r.result, events |-> r.events]
            /\ UNCHANGED waiting
       ELSE /\ waiting[repo] < MaxWaiting
            /\ waiting' = [waiting EXCEPT ![repo] = @ + 1]
            /\ UNCHANGED ghLast
    /\ UNCHANGED <<instances, constructed, nextId, firstGet>>
    /\ UNCHANGED cacheVars
    /\ UNCHANGED notGhVars

\* A create_workflow_dispatch call of the client of repo, from the end of its
\* sleep on: the host answers get_authenticated and the run listing with the
\* given outcomes, the runs being those listed now.
create_workflow_dispatch_resume(repo, auth, list, runs) ==
    /\ waiting[repo] > 0
    /\ waiting' = [waiting EXCEPT ![repo] = @ - 1]
    /\ LET r == dispatch_outcome(dispatch_lookup(auth, list, runs))
       IN ghLast' = [op |-> "create_workflow_dispatch", repo |-> repo,
                     dispatch |-> "ok", auth |-> auth, list |-> list,
                     runs |-> runs, sleeps |-> <<dispatch_sleep>>,
                     raised |-> r.raised, result |-> r.result,
                     events |-> r.events]
    /\ UNCHANGED <<instances, constructed, nextId, firstGet>>
    /\ UNCHANGED cacheVars
    /\ UNCHANGED notGhVars

\* The GithubUtils objects there can be: __init__ refuses a second object
\* of a repo name.
ObjectIds == 1 .. Cardinality(Repos)

\* The keys of the wrapper caches: pull request numbers and gist ids.
PullNumbers == 1 .. MaxKey
GistIds == {"g1", "g2"}

\* A wrapper cache (_pulls, _gists) is a function from the keys it holds.
\* The wrapper held under a key is named by how many wrappers have been
\* stored under that key so far (1: the first one); a wrapper that no cache
\* holds is named 0.
EmptyCache == <<>>
Wrapper(key, stored) == [key |-> key, stored |-> stored]

\* A lookup that builds and stores a wrapper on every call.
remember_always(cache, key) ==
    IF key \in DOMAIN cache
    THEN [cache EXCEPT ![key] = @ + 1]
    ELSE cache @@ (key :> 1)

\* if key not in self._cache: self._cache[key] = Wrapper(self._api, key)
remember(cache, key) ==
    IF key \in DOMAIN cache THEN cache ELSE cache @@ (key :> 1)

\* GithubUtils.get_pull_request(pull_number) of the client of repo.
get_pull_request(repo, pull_number) ==
    /\ instances[repo] # 0
    /\ LET self == instances[repo]
           _pulls == remember(pulls[self], pull_number)
       IN /\ pulls' = [pulls EXCEPT ![self] = _pulls]
          /\ ghLast' = [op |-> "get_pull_request", repo |-> repo,
                        client |-> self, key |-> pull_number,
                        raised |-> "None",
                        result |-> Wrapper(pull_number, _pulls[pull_number])]
    /\ UNCHANGED <<instances, constructed, nextId, firstGet, gists, waiting>>
    /\ UNCHANGED notGhVars

\* GithubUtils.get_gist(gist_id) of the client of repo.
get_gist(repo, gist_id) ==
    /\ instances[repo] # 0
    /\ LET self == instances[repo]
           _gists == remember(gists[self], gist_id)
       IN /\ gists' = [gists EXCEPT ![self] = _gists]
          /\ ghLast' = [op |-> "get_gist", repo |-> repo,
                        client |-> self, key |-> gist_id,
                        raised |-> "None",
                        result |-> Wrapper(gist_id, _gists[gist_id])]
    /\ UNCHANGED <<instances, constructed, nextId, firstGet, pulls, waiting>>
    /\ UNCHANGED notGhVars

\* GithubUtils.create_pull_request(...): the host creates the pull request
\* and picks its number, or the call raises; the wrapper returned is built
\* for the call and stored nowhere.
create_pull_request(repo, outcome, number) ==
    /\ instances[repo] # 0
    /\ ghLast' = [op |-> "create_pull_request", repo |-> repo,
                  client |-> instances[repo],
                  key |-> IF outcome = "ok" THEN number ELSE 0,
                  raised |-> IF outcome = "ok" THEN "None" ELSE outcome,
                  result |-> IF outcome = "ok" THEN Wrapper(number, 0)
                             ELSE Wrapper(0, 0)]
    /\ UNCHANGED <<instances, constructed, nextId, firstGet, pulls, gists,
                   waiting>>
    /\ UNCHANGED notGhVars

\* GithubUtils.create_gist(...): as create_pull_request, for a gist.
create_gist(repo, outcome, id) ==
    /\ instances[repo] # 0
    /\ ghLast' = [op |-> "create_gist", repo |-> repo,
                  client |-> instances[repo],
                  key |-> IF outcome = "ok" THEN id ELSE "",
                  raised |-> IF outcome = "ok" THEN "None" ELSE outcome,
                  result |-> IF outcome = "ok" THEN Wrapper(id, 0)
                             ELSE Wrapper("", 0)]
    /\ UNCHANGED <<instances, constructed, nextId, firstGet, pulls, gists,
                   waiting>>
    /\ UNCHANGED notGhVars

\* ---- get_open_pull_requests and the search of the host.
num_per_page == 100

\* Names are sequences of parts; a name starts with a prefix when its first
\* parts are the prefix.
BRANCH_NAME_PREFIX == <<"AUTO_TRANSFORM">>
startswith(name, prefix) ==
    /\ Len(name) >= Len(prefix)
    /\ SubSeq(name, 1, Len(prefix)) = prefix

\* The host at the time of a call: the open pull requests of the user in
\* the repo are numbered from 1, first those against "main" (full pages of
\* them and some extra), then those against "dev"; every foreign-th number
\* has a branch that is not one of this system (0: none has); drift is how
\* many entries of a page the host repeats at the head of the next one.
login == "me"
Extras == {0, 1}
DevCounts == {0, 1}
ForeignEvery == {0, 2}
Drifts == {0, 1}
Hosts ==
    [full : 0 .. MaxFullPages, extra : Extras, dev : DevCounts,
     foreign : ForeignEvery, drift : Drifts]
Bases == {NoneValue, Str("main")}

MainCount(host) == host.full * num_per_page + host.extra
HostNumbers(host) == 1 .. (MainCount(host) + host.dev)
HostPull(host, repo, k) ==
    [number |-> k, type |-> "pr", state |-> "open", author |-> login,
     repo |-> repo,
     base |-> IF k <= MainCount(host) THEN "main" ELSE "dev",
     branch |-> IF host.foreign # 0 /\ k % host.foreign = 0
                THEN <<"feature">>
                ELSE BRANCH_NAME_PREFIX \o <<"batch">>]

Range(seq) == {seq[i] : i \in 1 .. Len(seq)}

\* The terms of the query a pull request satisfies.
TermsOf(pull) ==
    {"type:" \o pull.type, "state:" \o pull.state,
     "author:" \o pull.author, "repo:" \o pull.repo, "base:" \o pull.base}

\* What the host lists for a query q, sort="created", order="desc": the
\* numbers of the pull requests satisfying every term of q, latest first.
Listing(host, repo, q) ==
    LET top == MainCount(host) + host.dev
        Hit(k) == Range(q) \subseteq TermsOf(HostPull(host, repo, k))
    IN SelectSeq([i \in 1 .. top |-> top + 1 - i], Hit)

\* search.issues_and_pull_requests(q, sort, order, per_page, page), given
\* what the host lists for q: the entries of the page.
issues_and_pull_requests(listing, drift, per_page, page) ==
    LET from == (page - 1) * (per_page - drift) + 1
        upto == IF from + per_page - 1 < Len(listing)
                THEN from + per_page - 1 ELSE Len(listing)
    IN SubSeq(listing, from, upto)

\* query = f"type:pr state:open author:{username} repo:{repo}", and
\* f"{query} base:{base}" when base is not None. A query is the sequence
\* of its terms.
build_query(username, repo, base) ==
    LET query == <<"type:pr", "state:open", "author:" \o username,
                   "repo:" \o repo>>
    IN IF ~base.none THEN query \o <<"base:" \o base.value>> ELSE query

\* A loop test that goes on while a page holds anything.
fetch_more_nonempty(items) == Len(items) > 0

\* fetch_more = len(prs["items"]) == num_per_page
fetch_more(items) == Len(items) = num_per_page

\* The while loop, from the request of page `page` on: the pages returned
\* and the numbers gathered.
RECURSIVE fetch_pages(_, _, _, _, _)
fetch_pages(listing, drift, page, fetched, all_pulls) ==
    LET items == issues_and_pull_requests(listing, drift, num_per_page, page)
        got == all_pulls \cup Range(items)
    IN IF fetch_more(items)
       THEN fetch_pages(listing, drift, page + 1, Append(fetched, items), got)
       ELSE [pages |-> Append(fetched, items), all_pulls |-> got]

\* get_pull_request for every number of a set: the cache afterwards.
remember_each(cache, keys) ==
    [k \in DOMAIN cache \cup keys |->
        IF k \in DOMAIN cache THEN cache[k] ELSE 1]

\* The numbers of a set as a list, in the order the set is walked.
ListOf(numbers, top) ==
    LET In(k) == k \in numbers IN SelectSeq([i \in 1 .. top |-> i], In)

\* GithubUtils.get_open_pull_requests(base) of the client of repo. Each
\* local of the method is bound once, to the value the method computes.
get_open_pull_requests(repo, base, host) ==
    /\ instances[repo] # 0
    /\ \E self \in {instances[repo]} :
       \E query \in {build_query(login, repo, base)} :
       \E listing \in {Listing(host, repo, query)} :
       \E done \in {fetch_pages(listing, host.drift, 1, <<>>, {})} :
       \E _pulls \in {remember_each(pulls[self], done.all_pulls)} :
       \E numbers \in {ListOf(done.all_pulls, MainCount(host) + host.dev)} :
          LET Own(k) == startswith(HostPull(host, repo, k).branch,
                                   BRANCH_NAME_PREFIX)
          IN \E kept \in {SelectSeq(numbers, Own)} :
             /\ pulls' = [pulls EXCEPT ![self] = _pulls]
             /\ ghLast' = [op |-> "get_open_pull_requests", repo |-> repo,
                           client |-> self, base |-> base, host |-> host,
                           query |-> query, pages |-> done.pages,
                           raised |-> "None",
                           result |-> [i \in 1 .. Len(kept) |->
                                         Wrapper(kept[i], _pulls[kept[i]])]]
    /\ UNCHANGED <<instances, constructed, nextId, firstGet, gists, waiting>>
    /\ UNCHANGED notGhVars

InitGithub ==
    /\ waiting = [r \in Repos |-> 0]
    /\ pulls = [o \in ObjectIds |-> EmptyCache]
    /\ gists = [o \in ObjectIds |-> EmptyCache]
    /\ instances = [r \in Repos |-> 0]
    /\ constructed = [r \in Repos |-> 0]
    /\ nextId = 1
    /\ firstGet = [r \in Repos |-> 0]
    /\ ghLast = [op |-> "None"]

NextGithub ==
    \/ \E r \in Repos : get(r)
    \/ \E r \in Repos : \E d \in ApiOutcomes : create_workflow_dispatch(r, d)
    \/ \E r \in Repos : \E a, l \in ApiOutcomes : \E runs \in RunLists :
          create_workflow_dispatch_resume(r, a, l, runs)

\* The listing of the open pull requests, by the client of one repo: the
\* clients of different repos share nothing the listing reads or writes.
ListedRepos == {"o/r1"}
NextOpenPulls ==
    \/ \E r \in ListedRepos : get(r)
    \/ \E r \in ListedRepos : \E b \in Bases : \E h \in Hosts :
          get_open_pull_requests(r, b, h)

\* The client cache and the wrapper caches of the clients.
NextGithubCache ==
    \/ \E r \in Repos : get(r)
    \/ \E r \in Repos : \E n \in PullNumbers : get_pull_request(r, n)
    \/ \E r \in Repos : \E g \in GistIds : get_gist(r, g)
    \/ \E r \in Repos : \E o \in ApiOutcomes : \E n \in PullNumbers :
          create_pull_request(r, o, n)
    \/ \E r \in Repos : \E o \in ApiOutcomes : \E g \in GistIds :
          create_gist(r, o, g)

(***************************************************************************)
(* autotransform/codemod.py: main() starts the Runner, polls it once a     *)
(* second for at most timeout seconds, and kills it.                       *)
(***************************************************************************)
timeout == 30

\* A loop condition that only asks the Runner.
loop_condition_no_timeout(is_finished, t, start, tmo) == ~is_finished

\* A loop condition that stops waiting when the budget is reached, not
\* exceeded.
loop_condition_strict(is_finished, t, start, tmo) ==
    ~is_finished /\ t < start + tmo

\* while not runner.is_finished() and time.time() <= start_time + timeout
loop_condition(is_finished, t, start, tmo) ==
    ~is_finished /\ t <= start + tmo

\* The command line: whether -d is given, how many operands follow the
\* options, and the -e argument, as the parts its commas separate.
ExtensionNames == {"py", "zzz"}
OperandCounts == {1, 2, 3}
ExtensionArgs ==
    {[given |-> FALSE, parts |-> <<>>]} \cup
    {[given |-> TRUE, parts |-> ps] :
        ps \in UNION {[1 .. n -> ExtensionNames] : n \in 1 .. MaxExtensions}}
Argvs ==
    [directory : BOOLEAN, operands : OperandCounts, extensions : ExtensionArgs]

\* The values of the Extensions enum.
Extensions == {".py"}
has_value(extension) == extension \in Extensions

\* parse_arguments(): argparse exits with status 2 unless -d and exactly the
\* two operands, pattern and replacement, are given.
parse_arguments(argv) ==
    IF argv.directory /\ argv.operands = 2
    THEN [raised |-> "None", extensions |-> argv.extensions]
    ELSE [raised |-> "SystemExit", extensions |-> argv.extensions]

\* main() up to the Runner: the arguments, and for a -e argument
\* split(","), "." + extension, and the assert on every extension.
setup(argv) ==
    LET args == parse_arguments(argv)
        extensions == [i \in 1 .. Len(args.extensions.parts) |->
                         "." \o args.extensions.parts[i]]
    IN IF args.raised # "None" THEN args.raised
       ELSE IF /\ args.extensions.given
               /\ \E i \in 1 .. Len(extensions) : ~has_value(extensions[i])
            THEN "AssertionError"
            ELSE "None"

\* main() from its first line to the construction of the Runner, which takes
\* d seconds: it ends here when the arguments are refused.
Setup(d, argv) ==
    /\ pc = "setup"
    /\ now' = now + d
    /\ mainRaised' = setup(argv)
    /\ pc' = IF setup(argv) = "None" THEN "start" ELSE "raised"
    /\ UNCHANGED <<start_time, finished, kills, killedAt>>

\* start_time = time.time(); runner.start(). The call takes d seconds.
Start(d) ==
    /\ pc = "start"
    /\ start_time' = now
    /\ now' = now + d
    /\ pc' = "loop"
    /\ UNCHANGED <<finished, kills, killedAt, mainRaised>>

\* One evaluation of the while condition.
LoopTest ==
    /\ pc = "loop"
    /\ pc' = IF loop_condition(finished, now, start_time, timeout)
             THEN "sleep" ELSE "kill"
    /\ UNCHANGED <<now, start_time, finished, kills, killedAt, mainRaised>>

\* time.sleep(1): at least one second passes.
Sleep(d) ==
    /\ pc = "sleep"
    /\ now + d <= MaxClock
    /\ now' = now + d
    /\ pc' = "loop"
    /\ UNCHANGED <<start_time, finished, kills, killedAt, mainRaised>>

\* runner.kill()
Kill ==
    /\ pc = "kill"
    /\ kills' = kills + 1
    /\ killedAt' = [now |-> now, finished |-> finished]
    /\ pc' = "done"
    /\ UNCHANGED <<now, start_time, finished, mainRaised>>

\* The worker completes, at any moment after the Runner started; it need not.
WorkerCompletes ==
    /\ pc \in {"loop", "sleep", "kill"}
    /\ ~finished
    /\ finished' = TRUE
    /\ UNCHANGED <<pc, now, start_time, kills, killedAt, mainRaised>>

MainStep ==
    \/ \E d \in 0 .. MaxSleep : \E argv \in Argvs : Setup(d, argv)
    \/ \E d \in 0 .. MaxSleep : Start(d)
    \/ LoopTest
    \/ \E d \in 1 .. MaxSleep : Sleep(d)
    \/ Kill

InitCodemod ==
    /\ pc = "setup"
    /\ now = 0
    /\ start_time = 0
    /\ finished = FALSE
    /\ kills = 0
    /\ killedAt = [now |-> 0, finished |-> FALSE]
    /\ mainRaised = "None"

\* A step of main(), which touches nothing else.
MainThread == MainStep /\ UNCHANGED notCliVars

NextCodemod ==
    \/ \E d \in 0 .. MaxSleep : \E argv \in Argvs :
          Setup(d, argv) /\ UNCHANGED notCliVars
    \/ \E d \in 0 .. MaxSleep : Start(d) /\ UNCHANGED notCliVars
    \/ LoopTest /\ UNCHANGED notCliVars
    \/ \E d \in 1 .. MaxSleep : Sleep(d) /\ UNCHANGED notCliVars
    \/ Kill /\ UNCHANGED notCliVars
    \/ WorkerCompletes /\ UNCHANGED notCliVars

(***************************************************************************)
(* Component factories: the registered names of a family, the class each   *)
(* name resolves to, bundles and their JSON form.                          *)
(***************************************************************************)
Families == {"condition", "item"}

\* The dict literal handed to ComponentFactory for Conditions: (name, class).
ConditionFactoryEntries_missing ==
    << <<"AGGREGATE", "AggregateCondition">>,
       <<"CHANGE_STATE", "ChangeStateCondition">>,
       <<"CREATED_AGO", "CreatedAgoCondition">>,
       <<"SCHEMA_NAME", "SchemaNameCondition">> >>

ConditionFactoryEntries_swapped ==
    << <<"AGGREGATE", "AggregateCondition">>,
       <<"CHANGE_STATE", "ChangeStateCondition">>,
       <<"CREATED_AGO", "UpdatedAgoCondition">>,
       <<"SCHEMA_NAME", "SchemaNameCondition">>,
       <<"UPDATED_AGO", "CreatedAgoCondition">> >>

ConditionFactoryEntries ==
    << <<"AGGREGATE", "AggregateCondition">>,
       <<"CHANGE_STATE", "ChangeStateCondition">>,
       <<"CREATED_AGO", "CreatedAgoCondition">>,
       <<"SCHEMA_NAME", "SchemaNameCondition">>,
       <<"UPDATED_AGO", "UpdatedAgoCondition">> >>

\* class ItemName(str, Enum), as the Item tests use it.
ItemName == {"FILE", "GENERIC"}

\* The dict handed to ComponentFactory for Items.
ItemFactoryEntries ==
    << <<"FILE", "FileItem">>, <<"GENERIC", "Item">> >>

EnumOf(family) == IF family = "condition" THEN ConditionName ELSE ItemName

EntriesOf(family) ==
    IF family = "condition" THEN ConditionFactoryEntries ELSE ItemFactoryEntries

\* The name attribute each component class declares.
DeclaredName(cls) ==
    CASE cls = "AggregateCondition" -> "AGGREGATE"
      [] cls = "ChangeStateCondition" -> "CHANGE_STATE"
      [] cls = "CreatedAgoCondition" -> "CREATED_AGO"
      [] cls = "SchemaNameCondition" -> "SCHEMA_NAME"
      [] cls = "UpdatedAgoCondition" -> "UPDATED_AGO"
      [] cls = "FileItem" -> "FILE"
      [] cls = "Item" -> "GENERIC"
      [] cls = "MyItem" -> "my"
      [] OTHER -> "other"

\* ComponentFactory.get_components(): the names of the dict.
get_components(family) ==
    {EntriesOf(family)[i][1] : i \in 1 .. Len(EntriesOf(family))}

\* The class a built-in name resolves to: in a dict the last entry of a key
\* is the one kept.
BuiltinClass(family, name) ==
    LET es == EntriesOf(family)
        last == CHOOSE i \in 1 .. Len(es) :
                   /\ es[i][1] = name
                   /\ \A j \in 1 .. Len(es) : es[j][1] = name => j <= i
    IN es[last][2]

\* The custom component file: names under the reserved prefix, each with the
\* class it imports. "Missing" is a class that cannot be imported.
CustomNames == {"custom/my", "custom/other"}
CustomClasses == {"MyItem", "OtherItem", "Missing"}

\* ComponentFactory.get_custom_components(strict): the entries of the file
\* that resolve; one that does not resolve raises when strict and is skipped
\* otherwise.
get_custom_components(file, strict) ==
    LET listed == {n \in CustomNames : file[n] # "absent"}
        broken == {n \in listed : file[n] = "Missing"}
    IN IF strict /\ broken # {}
       THEN [raised |-> "ImportError", names |-> {}]
       ELSE [raised |-> "None", names |-> listed \ broken]

\* ComponentFactory.get_class(name) of the Item factory.
get_class(family, file, name) ==
    IF name \in CustomNames THEN file[name] ELSE BuiltinClass(family, name)

\* tests/item/test_factory.py: test_all_enum_values_present.
test_all_enum_values_present(family) ==
    [missing_values |-> {n \in EnumOf(family) : n \notin get_components(family)},
     extra_values |-> {n \in get_components(family) : n \notin EnumOf(family)}]

\* tests/item/test_factory.py: test_fetching_components.
test_fetching_components(family, file) ==
    LET wrong == {n \in get_components(family) :
                     DeclaredName(get_class(family, file, n)) # n}
        custom == get_custom_components(file, TRUE)
        wrongCustom == {n \in custom.names :
                     ("custom/" \o DeclaredName(get_class(family, file, n))) # n}
    IN IF wrong # {} THEN "AssertionError"
       ELSE IF custom.raised # "None" THEN custom.raised
       ELSE IF wrongCustom # {} THEN "AssertionError"
       ELSE "pass"

\* The user lists, changes or removes an entry of the custom component file.
RegisterCustom(name, cls) ==
    /\ customFile[name] # cls
    /\ customFile' = [customFile EXCEPT ![name] = cls]
    /\ UNCHANGED facLast
    /\ UNCHANGED notFacVars

RunEnumTest(family) ==
    /\ facLast' = [op |-> "test_all_enum_values_present", family |-> family,
                   result |-> test_all_enum_values_present(family)]
    /\ UNCHANGED customFile
    /\ UNCHANGED notFacVars

\* The custom component file belongs to the Item factory.
RunFetchTest(family) ==
    LET file == IF family = "item" THEN customFile
                ELSE [n \in CustomNames |-> "absent"] IN
    /\ facLast' = [op |-> "test_fetching_components", family |-> family,
                   file |-> file,
                   result |-> test_fetching_components(family, file)]
    /\ UNCHANGED customFile
    /\ UNCHANGED notFacVars

(***************************************************************************)
(* Bundles: a component as a dict, the dict as JSON text, and back.        *)
(***************************************************************************)
\* Python values: None, a str, a member of a str Enum, a dict of str to str.
PyNone == [t |-> "none", s |-> "", d |-> {}]
PyStr(x) == [t |-> "str", s |-> x, d |-> {}]
PyEnum(m) == [t |-> "enum", s |-> m, d |-> {}]
PyDict(items) == [t |-> "dict", s |-> "", d |-> items]

\* JSON values: null, a string, an object.
JsonNull == [j |-> "null", s |-> "", d |-> {}]
JsonString(x) == [j |-> "string", s |-> x, d |-> {}]
JsonObject(items) == [j |-> "object", s |-> "", d |-> items]

\* The str value of a member of a name enum.
EnumValue(m) ==
    CASE m = "FILE" -> "file"
      [] m = "GENERIC" -> "generic"
      [] OTHER -> m

\* json.dumps of a value: a str Enum member is written as its str value.
json_dumps_value(v) ==
    CASE v.t = "none" -> JsonNull
      [] v.t = "str" -> JsonString(v.s)
      [] v.t = "enum" -> JsonString(EnumValue(v.s))
      [] OTHER -> JsonObject(v.d)

\* json.loads of a value: a string comes back as a plain str.
json_loads_value(j) ==
    CASE j.j = "null" -> PyNone
      [] j.j = "string" -> PyStr(j.s)
      [] OTHER -> PyDict(j.d)

json_dumps(b) ==
    [name |-> json_dumps_value(b.name), key |-> json_dumps_value(b.key),
     extra_data |-> json_dumps_value(b.extra_data)]

json_loads(j) ==
    [name |-> json_loads_value(j.name), key |-> json_loads_value(j.key),
     extra_data |-> json_loads_value(j.extra_data)]

\* The Items of the model: both classes, with extra_data absent, empty and
\* populated.
ItemKeys == {"foo", "bar"}
ExtraData ==
    {PyNone, PyDict({}), PyDict({<<"body", "bar">>}),
     PyDict({<<"body", "bar">>, <<"owner", "me">>})}
Items == [cls : {"FileItem", "Item"}, key : ItemKeys, extra_data : ExtraData]

NoItem == [cls |-> "None", key |-> "", extra_data |-> PyNone]

\* NamedComponent.bundle(): the fields, and the name the class declares.
bundle(item) ==
    [name |-> PyEnum(DeclaredName(item.cls)), key |-> PyStr(item.key),
     extra_data |-> item.extra_data]

\* The str a bundle's name stands for: a str Enum member equals its value.
NameStr(v) == IF v.t = "enum" THEN EnumValue(v.s) ELSE v.s

\* A decoder that builds the generic Item whatever the bundle's name.
get_instance_generic(family, file, data) ==
    [raised |-> "None",
     instance |-> [cls |-> "Item", key |-> data.key.s,
                   extra_data |-> data.extra_data]]

\* ComponentFactory.get_instance(data): the class registered under
\* data["name"], built from the other fields.
get_instance(family, file, data) ==
    LET known == {n \in get_components(family) : EnumValue(n) = NameStr(data.name)}
    IN IF known = {}
       THEN [raised |-> "ValueError", instance |-> NoItem]
       ELSE LET n == CHOOSE n \in known : TRUE IN
            [raised |-> "None",
             instance |-> [cls |-> get_class(family, file, n),
                           key |-> data.key.s,
                           extra_data |-> data.extra_data]]

\* tests/item/test_factory.py, test_encoding_and_decoding:
\*   FACTORY.get_instance(json.loads(json.dumps(component.bundle())))
RoundTrip(component) ==
    /\ facLast' = [op |-> "round_trip", component |-> component,
                   text |-> json_dumps(bundle(component)),
                   decoded |-> get_instance("item", customFile,
                                  json_loads(json_dumps(bundle(component))))]
    /\ UNCHANGED customFile
    /\ UNCHANGED notFacVars

(***************************************************************************)
(* input/script.py: ScriptInput.get_items, from the return of the          *)
(* subprocess on.                                                          *)
(***************************************************************************)
\* The Items a script reports.
PayloadItems ==
    {[cls |-> "FileItem", key |-> "foo", extra_data |-> PyNone],
     [cls |-> "Item", key |-> "bar", extra_data |-> PyDict({<<"body", "bar">>})]}

PayloadBundles == {json_dumps(bundle(i)) : i \in PayloadItems}

\* A JSON text holding a list of bundles, with white space around it.
Texts ==
    [lead : 0 .. 1, trail : 0 .. 1,
     items : UNION {[1 .. n -> PayloadBundles] : n \in 0 .. MaxItems}]

\* The text of a result file.
FileTexts == {t \in Texts : t.lead = 0 /\ t.trail = 0}

\* str.strip()
strip(text) == [text EXCEPT !.lead = 0, !.trail = 0]

\* json.loads of a list of bundles; white space around the list is skipped.
json_loads_list(text) ==
    [i \in 1 .. Len(text.items) |-> json_loads(text.items[i])]

\* A get_items without the check_returncode() call.
get_items_unchecked(returncode, uses_result_file, stdout, result_file, file) ==
    LET item_data == IF uses_result_file THEN json_loads_list(result_file)
                     ELSE json_loads_list(strip(stdout))
    IN [raised |-> "None", returned |-> TRUE,
        items |-> [i \in 1 .. Len(item_data) |->
                      get_instance("item", file, item_data[i]).instance]]

\* ScriptInput.get_items after subprocess.run returned: the two verbose
\* events, check_returncode(), the payload read from the result file or from
\* the stripped stdout, and one get_instance per bundle.
get_items(returncode, uses_result_file, stdout, result_file, file) ==
    IF returncode # 0
    THEN [raised |-> "CalledProcessError", returned |-> FALSE, items |-> <<>>]
    ELSE LET item_data == IF uses_result_file THEN json_loads_list(result_file)
                          ELSE json_loads_list(strip(stdout))
         IN [raised |-> "None", returned |-> TRUE,
             items |-> [i \in 1 .. Len(item_data) |->
                           get_instance("item", file, item_data[i]).instance]]

ReturnCodes == {0, 1}

RunScriptInput(returncode, uses_result_file, stdout, result_file) ==
    /\ facLast' = [op |-> "get_items", returncode |-> returncode,
                   uses_result_file |-> uses_result_file, stdout |-> stdout,
                   result_file |-> result_file,
                   out |-> get_items(returncode, uses_result_file, stdout,
                                     result_file, customFile)]
    /\ UNCHANGED customFile
    /\ UNCHANGED notFacVars

(***************************************************************************)
(* Claims.                                                                 *)
(***************************************************************************)

\* C1: constructing a comparison Condition of any class with comparison c
\* raises ValueError exactly when c is not in the class's
\* valid_comparisons(); when it succeeds the stored comparison is c; so every
\* Condition check() has run on holds a comparison its class admits.
C1_ConstructionValidates ==
    /\ lastConstruct.cls # "None" =>
          /\ (lastConstruct.raised = "ValueError")
                <=> (lastConstruct.requested \notin valid_comparisons(lastConstruct.cls))
          /\ lastConstruct.raised = "None" =>
                lastConstruct.comparison = lastConstruct.requested
    /\ lastCheck.done =>
          lastCheck.condition.comparison
             \in valid_comparisons(lastCheck.condition.cls)

\* A sortable Condition built with GREATER_THAN has been checked, and a plain
\* one asked for GREATER_THAN has been refused.
C1_Witness ==
    /\ lastCheck.done
    /\ lastCheck.condition.cls = "CreatedAgoCondition"
    /\ lastCheck.condition.comparison = "GREATER_THAN"
    /\ lastConstruct.cls = "ChangeStateCondition"
    /\ lastConstruct.requested = "GREATER_THAN"
    /\ lastConstruct.raised = "ValueError"

\* The Steps of the evaluated list whose Condition passes the Change.
Matching(n, change) ==
    {i \in 1 .. n : check(steps[i].condition, change)}

MinOf(S) == CHOOSE i \in S : \A j \in S : i <= j

\* C8: an evaluation of the Step list fires only the Action of the first Step
\* whose Condition passes the Change, even when a later Step passes too, and
\* leaves the Change unchanged when no Step passes.
C8_FirstApplicable ==
    lastEval.done =>
       LET m == Matching(lastEval.nsteps, lastEval.change) IN
       IF m = {}
       THEN lastEval.fired = <<>> /\ lastEval.result = lastEval.change
       ELSE /\ Len(lastEval.fired) = 1
            /\ lastEval.fired[1].index = MinOf(m)
            /\ lastEval.fired[1].action = steps[MinOf(m)].action
            /\ lastEval.result =
                  RunAction(steps[MinOf(m)].action, lastEval.change)

\* Steps [S1, S2, S3] where the Change passes S1 and S3 but not S2, S1 and S3
\* carrying different Actions: S1 has fired.
C8_Witness ==
    /\ lastEval.done
    /\ lastEval.nsteps = 3
    /\ Matching(3, lastEval.change) = {1, 3}
    /\ steps[1].action = "comment"
    /\ steps[3].action = "merge"
    /\ lastEval.fired # <<>>

\* C2: after any sequence of get() calls at most one client has been
\* constructed per repository name, and every call succeeds and returns what
\* the first call for that name returned.
C2_CachedSingleton ==
    /\ \A r \in Repos : constructed[r] <= 1
    /\ ghLast.op = "get" =>
          /\ ghLast.raised = "None"
          /\ ghLast.result = firstGet[ghLast.repo]

\* The calls of the try body that ran and failed with an HTTPError.
FailedWithHTTPError(g) ==
    \/ g.dispatch = "HTTPError"
    \/ g.dispatch = "ok" /\ g.auth = "HTTPError"
    \/ g.dispatch = "ok" /\ g.auth = "ok" /\ g.list = "HTTPError"

AllSucceeded(g) == g.dispatch = "ok" /\ g.auth = "ok" /\ g.list = "ok"

\* C10: when the dispatch or the run lookup fails with an HTTPError,
\* create_workflow_dispatch does not raise and yields None; when all calls
\* succeed it yields "" if no run is listed and else the html_url of the
\* first listed run.
C10_DispatchResult ==
    ghLast.op = "create_workflow_dispatch" =>
       /\ FailedWithHTTPError(ghLast) =>
             ghLast.raised = "None" /\ ghLast.result = NoneValue
       /\ AllSucceeded(ghLast) =>
             /\ ghLast.raised = "None"
             /\ ghLast.runs = <<>> => ghLast.result = Str("")
             /\ ghLast.runs # <<>> => ghLast.result = Str(ghLast.runs[1])

\* The dispatch succeeded, the call slept, two different runs are listed
\* after the sleep, and the URL of the first one came back.
C10_Witness ==
    /\ ghLast.op = "create_workflow_dispatch"
    /\ AllSucceeded(ghLast)
    /\ ghLast.sleeps = <<2>>
    /\ ghLast.runs = <<"u2", "u1">>
    /\ ghLast.result = Str("u2")

\* C6: main() always ends, and once runner.start() has been called the
\* polling loop exits and runner.kill() is reached, whether the worker
\* completes or never does.
C6_Terminates ==
    /\ <>(pc \in {"done", "raised"})
    /\ (pc = "loop") ~> (pc = "done" /\ kills = 1)

\* main() has ended on a Runner whose worker never completed.
C6_Witness == pc = "done" /\ ~finished /\ kills = 1

\* C7: kill() is called once per run that built its Runner, and never in a
\* run that ended on its arguments; it is not called while the worker is
\* unfinished and at most timeout seconds have passed since start_time; a
\* worker that never completes is killed at the first poll after the budget
\* has passed.
C7_KillAfterBudget ==
    /\ kills <= 1
    /\ pc = "done" => kills = 1
    /\ pc = "raised" => kills = 0
    /\ (kills = 1 /\ ~killedAt.finished) =>
          /\ killedAt.now - start_time > timeout
          /\ killedAt.now - start_time <= timeout + MaxSleep

\* A worker that never completed was killed 31 seconds after start_time.
C7_Witness ==
    /\ pc = "done"
    /\ kills = 1
    /\ ~killedAt.finished
    /\ killedAt.now - start_time = timeout + 1

\* C4: the names registered in a family's factory are exactly the members
\* of the family's name enum, each registered once; the Condition factory
\* registers AGGREGATE, CHANGE_STATE, CREATED_AGO, SCHEMA_NAME and UPDATED_AGO.
C4_FactoryComplete ==
    /\ get_components("condition") =
          {"AGGREGATE", "CHANGE_STATE", "CREATED_AGO", "SCHEMA_NAME", "UPDATED_AGO"}
    /\ \A f \in Families :
          /\ get_components(f) = EnumOf(f)
          /\ Len(EntriesOf(f)) = Cardinality(EnumOf(f))
    /\ facLast.op = "test_all_enum_values_present" =>
          facLast.result = [missing_values |-> {}, extra_values |-> {}]

\* The completeness test has run on the Condition factory.
C4_Witness ==
    /\ facLast.op = "test_all_enum_values_present"
    /\ facLast.family = "condition"

\* The entries of a custom component file whose class declares the name the
\* entry is listed under.
CustomNamesMatch(file) ==
    \A n \in CustomNames :
       file[n] # "absent" =>
          file[n] # "Missing" /\ n = "custom/" \o DeclaredName(file[n])

\* C5: every built-in name resolves to a class that declares that name, and
\* the fetch test passes exactly when every custom name is "custom/" followed
\* by the name its class declares: a mismatch is detected.
C5_NamesMatch ==
    /\ \A f \in Families : \A n \in get_components(f) :
          DeclaredName(BuiltinClass(f, n)) = n
    /\ facLast.op = "test_fetching_components" =>
          (facLast.result = "pass" <=> CustomNamesMatch(facLast.file))

\* The fetch test has failed on a custom name whose class declares another
\* name.
C5_Witness ==
    /\ facLast.op = "test_fetching_components"
    /\ facLast.family = "item"
    /\ facLast.file["custom/my"] = "OtherItem"
    /\ facLast.file["custom/other"] = "absent"
    /\ facLast.result = "AssertionError"

\* C3: an Item of either registered class, with extra_data absent or
\* populated, comes back equal (class, key and extra_data) from get_instance
\* applied to its bundle written as JSON and read back.
C3_RoundTrip ==
    facLast.op = "round_trip" =>
       /\ facLast.decoded.raised = "None"
       /\ facLast.decoded.instance = facLast.component

\* A FileItem with populated extra_data has made the round trip.
C3_Witness ==
    /\ facLast.op = "round_trip"
    /\ facLast.component.cls = "FileItem"
    /\ facLast.component.extra_data = PyDict({<<"body", "bar">>})
    /\ facLast.text.name = JsonString("file")

\* The Item a reported bundle stands for.
ItemOf(jsonBundle) ==
    CHOOSE i \in PayloadItems : json_dumps(bundle(i)) = jsonBundle

\* C9: when the script exits nonzero get_items raises and returns no list;
\* when it exits zero the Items are those of the result file if the command
\* uses one and else those of stdout, one per bundle, in payload order.
C9_ScriptInput ==
    facLast.op = "get_items" =>
       /\ facLast.returncode # 0 =>
             facLast.out.raised = "CalledProcessError" /\ ~facLast.out.returned
       /\ facLast.returncode = 0 =>
             LET src == IF facLast.uses_result_file THEN facLast.result_file
                        ELSE facLast.stdout IN
             /\ facLast.out.raised = "None"
             /\ facLast.out.returned
             /\ Len(facLast.out.items) = Len(src.items)
             /\ \A i \in 1 .. Len(src.items) :
                   facLast.out.items[i] = ItemOf(src.items[i])

\* A script that wrote two bundles to stdout, padded with white space, and a
\* different payload to the result file it does not use, exited zero.
C9_Witness ==
    /\ facLast.op = "get_items"
    /\ facLast.returncode = 0
    /\ ~facLast.uses_result_file
    /\ facLast.stdout.lead = 1
    /\ Len(facLast.stdout.items) = 2
    /\ facLast.stdout.items[1] # facLast.stdout.items[2]
    /\ facLast.result_file.items = <<>>
    /\ Len(facLast.out.items) = 2

\* C12: a plain comparison Condition (state, schema name) is constructed
\* exactly with EQUAL or NOT_EQUAL, and a sortable one (the ages) exactly
\* with any of the six comparisons: the validator of a sortable class uses
\* the sortable set, not the one of ComparisonCondition.
C12_ValidSets ==
    /\ \A cls \in ComparisonClasses :
          valid_comparisons(cls) =
             IF cls \in {"CreatedAgoCondition", "UpdatedAgoCondition"}
             THEN {"EQUAL", "NOT_EQUAL", "GREATER_THAN",
                   "GREATER_THAN_OR_EQUAL", "LESS_THAN", "LESS_THAN_OR_EQUAL"}
             ELSE {"EQUAL", "NOT_EQUAL"}
    /\ lastConstruct.cls \in {"ChangeStateCondition", "SchemaNameCondition"} =>
          (lastConstruct.raised = "None"
             <=> lastConstruct.requested \in {"EQUAL", "NOT_EQUAL"})
    /\ lastConstruct.cls \in {"CreatedAgoCondition", "UpdatedAgoCondition"} =>
          /\ lastConstruct.raised = "None"
          /\ lastConstruct.comparison = lastConstruct.requested

\* A sortable Condition has been constructed with a comparison the plain set
\* does not hold.
C12_Witness ==
    /\ lastConstruct.cls = "UpdatedAgoCondition"
    /\ lastConstruct.requested = "LESS_THAN_OR_EQUAL"
    /\ lastConstruct.raised = "None"
    /\ lastConstruct.comparison = "LESS_THAN_OR_EQUAL"

vars == <<condVars, stepVars, ghVars, cliVars, facVars>>

\* C11: get_open_pull_requests requests page after page from the first,
\* every page before the last one requested held 100 entries and the last
\* one fewer; the list returned holds no pull request number twice, and
\* holds exactly the numbers found on a fetched page whose branch starts
\* with BRANCH_NAME_PREFIX; the numbers found are all open pull requests of
\* the user in the repo when base is None, and those against base otherwise.
C11_OpenPulls ==
    ghLast.op = "get_open_pull_requests" =>
       LET pages == ghLast.pages
           result == ghLast.result
           found == UNION {Range(pages[i]) : i \in 1 .. Len(pages)}
           open == HostNumbers(ghLast.host)
           PullOf(k) == HostPull(ghLast.host, ghLast.repo, k)
       IN /\ Len(pages) >= 1
          /\ \A i \in 1 .. Len(pages) - 1 : Len(pages[i]) = 100
          /\ Len(pages[Len(pages)]) < 100
          /\ \A i, j \in 1 .. Len(result) :
                i # j => result[i].key # result[j].key
          /\ {result[i].key : i \in 1 .. Len(result)} =
                {k \in found : startswith(PullOf(k).branch, BRANCH_NAME_PREFIX)}
          /\ found = IF ghLast.base.none THEN open
                     ELSE {k \in open : PullOf(k).base = ghLast.base.value}

\* The pull requests against "main" fill two pages exactly, so a third,
\* empty page was requested; one against "dev" is open too, and every second
\* branch is foreign: half of the numbers found are returned.
C11_Witness ==
    /\ ghLast.op = "get_open_pull_requests"
    /\ ghLast.base = Str("main")
    /\ ghLast.host.dev = 1
    /\ ghLast.host.foreign = 2
    /\ Len(ghLast.pages) = 3
    /\ Len(ghLast.pages[3]) = 0
    /\ Len(ghLast.result) = 100

\* What a step keeps of a wrapper cache: every key held, with its wrapper.
Kept(old, new) ==
    \A k \in DOMAIN old : k \in DOMAIN new /\ new[k] = old[k]

\* C13: over any calls of get, get_pull_request, get_gist,
\* create_pull_request and create_gist, no entry of the client cache or of a
\* client's pull request or gist cache is removed or replaced;
\* get_pull_request and get_gist return the wrapper the cache holds for the
\* key, the one held before the call when there was one; create_pull_request
\* and create_gist leave both caches as they were.
C13_CachesAppendOnly ==
    [][ /\ \A r \in Repos : instances[r] # 0 => instances'[r] = instances[r]
        /\ \A o \in ObjectIds : /\ Kept(pulls[o], pulls'[o])
                                 /\ Kept(gists[o], gists'[o])
        /\ ghLast'.op = "get_pull_request" =>
              LET held == pulls[ghLast'.client] IN
              /\ ghLast'.result =
                    Wrapper(ghLast'.key, pulls'[ghLast'.client][ghLast'.key])
              /\ ghLast'.key \in DOMAIN held =>
                    ghLast'.result = Wrapper(ghLast'.key, held[ghLast'.key])
        /\ ghLast'.op = "get_gist" =>
              LET held == gists[ghLast'.client] IN
              /\ ghLast'.result =
                    Wrapper(ghLast'.key, gists'[ghLast'.client][ghLast'.key])
              /\ ghLast'.key \in DOMAIN held =>
                    ghLast'.result = Wrapper(ghLast'.key, held[ghLast'.key])
        /\ ghLast'.op \in {"create_pull_request", "create_gist"} =>
              pulls' = pulls /\ gists' = gists
      ]_vars

\* A pull request has been created with the number of a cached wrapper, by a
\* client whose caches hold every pull request number and a gist, with both
\* clients built.
C13_Witness ==
    /\ ghLast.op = "create_pull_request"
    /\ ghLast.raised = "None"
    /\ ghLast.key \in DOMAIN pulls[ghLast.client]
    /\ DOMAIN pulls[ghLast.client] = PullNumbers
    /\ DOMAIN gists[ghLast.client] # {}
    /\ \A r \in Repos : instances[r] # 0

InitFactory ==
    /\ customFile = [n \in CustomNames |-> "absent"]
    /\ facLast = [op |-> "None"]

NextFactory ==
    \/ \E n \in CustomNames : \E c \in CustomClasses \cup {"absent"} :
          RegisterCustom(n, c)
    \/ \E f \in Families : RunEnumTest(f)
    \/ \E f \in Families : RunFetchTest(f)
    \/ \E c \in Items : RoundTrip(c)

NextScriptInput ==
    \E rc \in ReturnCodes : \E u \in BOOLEAN :
       \E out \in Texts : \E rf \in FileTexts :
          RunScriptInput(rc, u, out, rf)

Init == InitCondition /\ InitSteps /\ InitGithub /\ InitCodemod /\ InitFactory

SpecFactory == Init /\ [][NextFactory]_vars

SpecScriptInput == Init /\ [][NextScriptInput]_vars

\* main() is a single thread that always takes its next step.
SpecCodemod == Init /\ [][NextCodemod]_vars /\ WF_vars(MainThread)

SpecGithub == Init /\ [][NextGithub]_vars

SpecGithubCache == Init /\ [][NextGithubCache]_vars

SpecOpenPulls == Init /\ [][NextOpenPulls]_vars

SpecCondition == Init /\ [][NextCondition]_vars

SpecSteps == Init /\ [][NextSteps]_vars

====
